---------------------------- MODULE Spec2Model ----------------------------
(***************************************************************************)
(* Model of flashrom's linux_gpiod programmer (linux_gpiod.c): the         *)
(* initialisation routine linux_gpiod_spi_init with its err_exit path, the *)
(* shutdown callback linux_gpiod_spi_shutdown and the four bit-bang        *)
(* capability operations.  libgpiod, the shutdown registry and the generic *)
(* bit-bang SPI engine are the environment: every call into them is one    *)
(* step whose result is chosen nondeterministically among the results the  *)
(* documented interface allows, and every call is appended to `log`.       *)
(***************************************************************************)
EXTENDS Integers, Sequences, FiniteSets, TLC

(* ----------------------------- bounds --------------------------------- *)

\* Number of capability operations the SPI engine issues in one run.
MaxOps == 2

\* Number of times the shutdown callback may be invoked in SpecReinvoke.
MaxInvocations == 2

(* ------------------------- program constants -------------------------- *)

\* const char *param_str[] = { "cs", "sck", "mosi", "miso", "gpiochip" }
param_str == <<"cs", "sck", "mosi", "miso", "gpiochip">>

\* ARRAY_SIZE(param_str)
NumParams == Len(param_str)

\* Number of lines of the bulk lookup: gpiod_chip_get_lines(chip, param_int, 4, ..)
NumLines == 4

(* ------------------------------ inputs -------------------------------- *)

\* extract_programmer_param_str returns NULL for a parameter that is absent.
NULL == <<"NULL">>

\* Parameter strings given on the command line, as sequences of characters.
LineStrs == { <<"5">>, <<"6">>, <<"7">>, <<"8">> }
ChipStrs == { <<"0">> }

DigitChars == <<"0", "1", "2", "3", "4", "5", "6", "7", "8", "9">>
IsDigit(c) == \E d \in 1..10 : DigitChars[d] = c
DigitVal(c) == (CHOOSE d \in 1..10 : DigitChars[d] = c) - 1

\* Value of the leading run of digits of s, acc being the value read so far.
RECURSIVE AtoiDigits(_, _)
AtoiDigits(s, acc) ==
    IF s = <<>> \/ ~IsDigit(Head(s))
    THEN acc
    ELSE AtoiDigits(Tail(s), acc * 10 + DigitVal(Head(s)))

\* atoi(3): optional sign, then decimal digits up to the first non-digit.
atoi(s) ==
    IF s # <<>> /\ Head(s) = "-" THEN 0 - AtoiDigits(Tail(s), 0)
    ELSE IF s # <<>> /\ Head(s) = "+" THEN AtoiDigits(Tail(s), 0)
    ELSE AtoiDigits(s, 0)

\* Offsets of the GPIO lines the parameter strings can name.
Offsets == { atoi(s) : s \in LineStrs }

\* The configurations: each parameter present with a value, or absent.
Configs ==
    { c \in [1..NumParams -> LineStrs \cup ChipStrs \cup {NULL}] :
        /\ \A k \in 1..NumLines : c[k] \in LineStrs \cup {NULL}
        /\ c[NumParams] \in ChipStrs \cup {NULL} }

(* ------------------------------- state -------------------------------- *)

VARIABLES
    cfg,            \* const struct programmer_cfg *cfg: the parameter strings
    pc,             \* position of the program
    i,              \* loop counter of the parameter loop (0-based)
    param_int,      \* unsigned int param_int[5], 1-based here
    data,           \* struct gpiod_spi_data *data: "NULL", "live" or "freed"
    data_chip,      \* data->chip: "NULL" or "chip"
    bulk,           \* data->bulk: the offsets of the lines it holds
    role_line,      \* data->cs_line, sck_line, mosi_line, miso_line (0 = NULL)
    chip,           \* local struct gpiod_chip *chip: "NULL" or "chip"
    r,              \* int r: the accumulated result of the four requests
    chip_open,      \* libgpiod: the controller is open
    lines,          \* libgpiod: per offset, reserved / direction / value
    shutdown_fn_count, \* shutdown registry: callbacks registered, not yet run
    registered_master, \* SPI engine: the bit-bang master is registered
    init_ret,       \* <<>> while init runs, then <<return value>>
    sd_calls,       \* number of invocations of the shutdown callback
    sd_ret,         \* number of returns of the shutdown callback
    sd_result,      \* <<>> or <<last value returned by the shutdown callback>>
    nops,           \* capability operations issued so far
    miso_ret,       \* <<>> or <<last value returned by get_miso>>
    uaf,            \* freed backend memory has been accessed
    diag,           \* messages given to msg_perr
    log             \* the calls made to the collaborators, in order

vars == << cfg, pc, i, param_int, data, data_chip, bulk, role_line, chip, r,
           chip_open, lines, shutdown_fn_count, registered_master, init_ret,
           sd_calls, sd_ret, sd_result, nops, miso_ret, uaf, diag, log >>

\* Variables of the environment and of the result, grouped for UNCHANGED.
libvars == << chip_open, lines >>
regvars == << shutdown_fn_count, registered_master >>
sdvars  == << sd_calls, sd_ret, sd_result >>
opvars  == << nops, miso_ret >>
locals  == << i, param_int, chip, r >>
fields  == << data_chip, bulk, role_line >>

\* One call to a collaborator: its name, its arguments and its result.
Call(op, arg, res) == [op |-> op, arg |-> arg, res |-> res]

FreeLine == [req |-> FALSE, dir |-> "none", val |-> 0]

Init ==
    /\ cfg \in Configs
    /\ pc = "extract_param"
    /\ i = 0
    /\ param_int = [k \in 1..NumParams |-> 0]
    /\ data = "NULL"
    /\ data_chip = "NULL"
    /\ bulk = <<>>
    /\ role_line = [k \in 1..NumLines |-> 0]
    /\ chip = "NULL"
    /\ r = 0
    /\ chip_open = FALSE
    /\ lines = [o \in Offsets |-> FreeLine]
    /\ shutdown_fn_count = 0
    /\ registered_master = FALSE
    /\ init_ret = <<>>
    /\ sd_calls = 0
    /\ sd_ret = 0
    /\ sd_result = <<>>
    /\ nops = 0
    /\ miso_ret = <<>>
    /\ uaf = FALSE
    /\ diag = <<>>
    /\ log = <<>>

(* ----------------------- linux_gpiod_spi_init -------------------------- *)

\* Variant of init_extract_param: a missing parameter is reported but the
\* loop goes on to the next parameter instead of leaving through err_exit.
init_extract_param_no_goto ==
    /\ pc = "extract_param"
    /\ IF cfg[i + 1] # NULL
       THEN /\ param_int' = [param_int EXCEPT ![i + 1] = atoi(cfg[i + 1])]
            /\ diag' = diag
       ELSE /\ diag' = Append(diag, <<"Missing required programmer parameter", param_str[i + 1]>>)
            /\ param_int' = param_int
    /\ i' = i + 1
    /\ pc' = IF i + 1 < NumParams THEN "extract_param" ELSE "calloc"
    /\ UNCHANGED << cfg, data, fields, chip, r, libvars, regvars, init_ret,
                    sdvars, opvars, uaf, log >>

\* One iteration of the parameter loop (lines 94-103).
init_extract_param ==
    /\ pc = "extract_param"
    /\ IF cfg[i + 1] # NULL
       THEN /\ param_int' = [param_int EXCEPT ![i + 1] = atoi(cfg[i + 1])]
            /\ i' = i + 1
            /\ pc' = IF i + 1 < NumParams THEN "extract_param" ELSE "calloc"
            /\ diag' = diag
       ELSE /\ diag' = Append(diag, <<"Missing required programmer parameter", param_str[i + 1]>>)
            /\ pc' = "err_exit"
            /\ UNCHANGED << i, param_int >>
    /\ UNCHANGED << cfg, data, fields, chip, r, libvars, regvars, init_ret,
                    sdvars, opvars, uaf, log >>

\* Variant of init_calloc: malloc instead of calloc, so that data->bulk
\* starts with whatever the memory held.
init_calloc_malloc ==
    /\ pc = "calloc"
    /\ \E ok \in BOOLEAN :
         IF ok
         THEN /\ data' = "live"
              /\ data_chip' = "NULL"
              /\ bulk' \in {<<>>, <<param_int[1]>>}
              /\ role_line' = [k \in 1..NumLines |-> 0]
              /\ pc' = "chip_open"
              /\ diag' = diag
         ELSE /\ diag' = Append(diag, <<"Unable to allocate space for SPI master data">>)
              /\ pc' = "err_exit"
              /\ UNCHANGED << data, fields >>
    /\ UNCHANGED << cfg, locals, libvars, regvars, init_ret, sdvars, opvars,
                    uaf, log >>

\* data = calloc(1, sizeof(*data)) (lines 105-109): zeroed memory, or NULL.
init_calloc ==
    /\ pc = "calloc"
    /\ \E ok \in BOOLEAN :
         IF ok
         THEN /\ data' = "live"
              /\ data_chip' = "NULL"
              /\ bulk' = <<>>
              /\ role_line' = [k \in 1..NumLines |-> 0]
              /\ pc' = "chip_open"
              /\ diag' = diag
         ELSE /\ diag' = Append(diag, <<"Unable to allocate space for SPI master data">>)
              /\ pc' = "err_exit"
              /\ UNCHANGED << data, fields >>
    /\ UNCHANGED << cfg, locals, libvars, regvars, init_ret, sdvars, opvars,
                    uaf, log >>

\* Variant of init_chip_open: the result of the open is not tested, init
\* goes on to the lookup with a NULL chip.
init_chip_open_unchecked ==
    /\ pc = "chip_open"
    /\ \E ok \in BOOLEAN :
         /\ chip' = IF ok THEN "chip" ELSE "NULL"
         /\ chip_open' = ok
         /\ data_chip' = IF ok THEN "chip" ELSE "NULL"
         /\ log' = Append(log, Call("chip_open", <<param_int[NumParams]>>,
                                    IF ok THEN 0 ELSE -1))
    /\ pc' = "get_lines"
    /\ UNCHANGED << cfg, i, param_int, r, data, bulk, role_line, lines,
                    regvars, init_ret, sdvars, opvars, uaf, diag >>

\* chip = gpiod_chip_open_by_number(param_int[4]) and data->chip = chip
\* (lines 111-117).
init_chip_open ==
    /\ pc = "chip_open"
    /\ \E ok \in BOOLEAN :
         IF ok
         THEN /\ chip' = "chip"
              /\ chip_open' = TRUE
              /\ data_chip' = "chip"
              /\ log' = Append(log, Call("chip_open", <<param_int[NumParams]>>, 0))
              /\ pc' = "get_lines"
              /\ diag' = diag
         ELSE /\ log' = Append(log, Call("chip_open", <<param_int[NumParams]>>, -1))
              /\ diag' = Append(diag, <<"Failed to open gpiochip">>)
              /\ pc' = "err_exit"
              /\ UNCHANGED << chip, chip_open, data_chip >>
    /\ UNCHANGED << cfg, i, param_int, r, data, bulk, role_line, lines,
                    regvars, init_ret, sdvars, opvars, uaf >>

\* Variant of init_get_lines: a failed lookup is not reported to msg_perr.
init_get_lines_silent ==
    /\ pc = "get_lines"
    /\ \E n \in 0..NumLines :
         /\ bulk' = [k \in 1..n |-> param_int[k]]
         /\ log' = Append(log, Call("get_lines", SubSeq(param_int, 1, NumLines),
                                    IF n = NumLines THEN 0 ELSE -1))
         /\ pc' = IF n = NumLines THEN "assign_lines" ELSE "err_exit"
    /\ UNCHANGED << cfg, locals, data, data_chip, role_line, libvars, regvars,
                    init_ret, sdvars, opvars, uaf, diag >>

\* gpiod_chip_get_lines(chip, param_int, 4, &data->bulk) (lines 119-122).
\* libgpiod empties the bulk, then looks the offsets up one by one and adds
\* each line found; it stops at the first lookup that fails.  n is the number
\* of lines found: the call succeeds iff n = 4.
init_get_lines ==
    /\ pc = "get_lines"
    /\ \E n \in 0..NumLines :
         /\ bulk' = [k \in 1..n |-> param_int[k]]
         /\ log' = Append(log, Call("get_lines", SubSeq(param_int, 1, NumLines),
                                    IF n = NumLines THEN 0 ELSE -1))
         /\ IF n = NumLines
            THEN /\ pc' = "assign_lines"
                 /\ diag' = diag
            ELSE /\ pc' = "err_exit"
                 /\ diag' = Append(diag, <<"Error getting GPIO lines">>)
    /\ UNCHANGED << cfg, locals, data, data_chip, role_line, libvars, regvars,
                    init_ret, sdvars, opvars, uaf >>

\* Variant of init_assign_lines: cs_line and sck_line are taken from each
\* other's position in the bulk.
init_assign_lines_swapped ==
    /\ pc = "assign_lines"
    /\ role_line' = [k \in 1..NumLines |->
                       IF k = 1 THEN bulk[2] ELSE IF k = 2 THEN bulk[1] ELSE bulk[k]]
    /\ pc' = "request_cs"
    /\ UNCHANGED << cfg, locals, data, data_chip, bulk, libvars, regvars,
                    init_ret, sdvars, opvars, uaf, diag, log >>

\* data->cs_line .. data->miso_line = gpiod_line_bulk_get_line(&data->bulk, 0..3)
\* (lines 124-127).
init_assign_lines ==
    /\ pc = "assign_lines"
    /\ role_line' = [k \in 1..NumLines |-> bulk[k]]
    /\ pc' = "request_cs"
    /\ UNCHANGED << cfg, locals, data, data_chip, bulk, libvars, regvars,
                    init_ret, sdvars, opvars, uaf, diag, log >>

\* Variant of BitOr: r = instead of r |=, the last result overwrites.
BitOr_assign(a, b) == b

\* int | int for the two results libgpiod returns, 0 and -1.
BitOr(a, b) == IF a = -1 \/ b = -1 THEN -1 ELSE 0

\* libgpiod: the lines after a successful request of the line at offset o.
Requested(o, dir, val) ==
    [lines EXCEPT ![o] = [req |-> TRUE, dir |-> dir, val |-> val]]

\* Variant of request_line: the output lines are requested with initial
\* value 0 instead of 1.
request_line_low(k, op, dir, first, next) ==
    \E ok \in BOOLEAN :
      LET o   == role_line[k]
          res == IF ok /\ ~lines[o].req THEN 0 ELSE -1
      IN /\ lines' = IF res = 0 THEN Requested(o, dir, 0) ELSE lines
         /\ r' = IF first THEN res ELSE BitOr(r, res)
         /\ log' = Append(log, Call(op, IF dir = "out" THEN <<o, 0>> ELSE <<o>>, res))
         /\ pc' = next
         /\ UNCHANGED << cfg, i, param_int, chip, data, fields, chip_open,
                         regvars, init_ret, sdvars, opvars, uaf, diag >>

\* One gpiod_line_request_output / gpiod_line_request_input call on the line
\* of role k.  libgpiod refuses a line that is already reserved (EBUSY) and
\* may fail for any other line too.
request_line(k, op, dir, first, next) ==
    \E ok \in BOOLEAN :
      LET o   == role_line[k]
          res == IF ok /\ ~lines[o].req THEN 0 ELSE -1
      IN /\ lines' = IF res = 0 THEN Requested(o, dir, IF dir = "out" THEN 1 ELSE 0)
                     ELSE lines
         /\ r' = IF first THEN res ELSE BitOr(r, res)
         /\ log' = Append(log, Call(op, IF dir = "out" THEN <<o, 1>> ELSE <<o>>, res))
         /\ pc' = next
         /\ UNCHANGED << cfg, i, param_int, chip, data, fields, chip_open,
                         regvars, init_ret, sdvars, opvars, uaf, diag >>

\* Variant of init_request_cs: a failed request of cs skips the three other
\* requests.
init_request_cs_short_circuit ==
    /\ pc = "request_cs"
    /\ \E ok \in BOOLEAN :
         LET o   == role_line[1]
             res == IF ok /\ ~lines[o].req THEN 0 ELSE -1
         IN /\ lines' = IF res = 0 THEN Requested(o, "out", 1) ELSE lines
            /\ r' = res
            /\ log' = Append(log, Call("request_output", <<o, 1>>, res))
            /\ pc' = IF res = 0 THEN "request_sck" ELSE "check_r"
    /\ UNCHANGED << cfg, i, param_int, chip, data, fields, chip_open,
                    regvars, init_ret, sdvars, opvars, uaf, diag >>

\* r = gpiod_line_request_output(data->cs_line, CONSUMER, 1) (line 129).
init_request_cs ==
    /\ pc = "request_cs"
    /\ request_line(1, "request_output", "out", TRUE, "request_sck")

\* r |= gpiod_line_request_output(data->sck_line, CONSUMER, 1) (line 130).
init_request_sck ==
    /\ pc = "request_sck"
    /\ request_line(2, "request_output", "out", FALSE, "request_mosi")

\* r |= gpiod_line_request_output(data->mosi_line, CONSUMER, 1) (line 131).
init_request_mosi ==
    /\ pc = "request_mosi"
    /\ request_line(3, "request_output", "out", FALSE, "request_miso")

\* r |= gpiod_line_request_input(data->miso_line, CONSUMER) (line 132).
init_request_miso ==
    /\ pc = "request_miso"
    /\ request_line(4, "request_input", "in", FALSE, "check_r")

\* Variant of init_check_r: the test is r > 0, which no result satisfies.
init_check_r_positive ==
    /\ pc = "check_r"
    /\ IF r > 0
       THEN /\ diag' = Append(diag, <<"Requesting GPIO lines failed">>)
            /\ pc' = "err_exit"
       ELSE /\ diag' = diag
            /\ pc' = "register_shutdown"
    /\ UNCHANGED << cfg, locals, data, fields, libvars, regvars, init_ret,
                    sdvars, opvars, uaf, log >>

\* if (r < 0) { msg_perr(..); goto err_exit; } (lines 134-137).
init_check_r ==
    /\ pc = "check_r"
    /\ IF r < 0
       THEN /\ diag' = Append(diag, <<"Requesting GPIO lines failed">>)
            /\ pc' = "err_exit"
       ELSE /\ diag' = diag
            /\ pc' = "register_shutdown"
    /\ UNCHANGED << cfg, locals, data, fields, libvars, regvars, init_ret,
                    sdvars, opvars, uaf, log >>

\* if (register_shutdown(linux_gpiod_spi_shutdown, data)) goto err_exit;
\* (lines 139-140).  The registry either records the callback and returns 0
\* or records nothing and returns 1.
init_register_shutdown ==
    /\ pc = "register_shutdown"
    /\ \E ok \in BOOLEAN :
         /\ shutdown_fn_count' = IF ok THEN shutdown_fn_count + 1 ELSE shutdown_fn_count
         /\ log' = Append(log, Call("register_shutdown", <<>>, IF ok THEN 0 ELSE 1))
         /\ pc' = IF ok THEN "register_master" ELSE "err_exit"
    /\ UNCHANGED << cfg, locals, data, fields, libvars, registered_master,
                    init_ret, sdvars, opvars, uaf, diag >>

\* Variant of init_register_master: a failed engine registration leaves
\* through err_exit like every other failure.
init_register_master_goto_err_exit ==
    /\ pc = "register_master"
    /\ \E ok \in BOOLEAN :
         /\ registered_master' = ok
         /\ log' = Append(log, Call("register_master", <<>>, IF ok THEN 0 ELSE 1))
         /\ init_ret' = IF ok THEN <<0>> ELSE init_ret
         /\ pc' = IF ok THEN "idle" ELSE "err_exit"
    /\ UNCHANGED << cfg, locals, data, fields, libvars, shutdown_fn_count,
                    sdvars, opvars, uaf, diag >>

\* if (register_spi_bitbang_master(&bitbang_spi_master_gpiod, data)) return 1;
\* return 0; (lines 142-145).
init_register_master ==
    /\ pc = "register_master"
    /\ \E ok \in BOOLEAN :
         /\ registered_master' = ok
         /\ log' = Append(log, Call("register_master", <<>>, IF ok THEN 0 ELSE 1))
         /\ init_ret' = IF ok THEN <<0>> ELSE <<1>>
    /\ pc' = "idle"
    /\ UNCHANGED << cfg, locals, data, fields, libvars, shutdown_fn_count,
                    sdvars, opvars, uaf, diag >>

(* ------------------------------ err_exit ------------------------------- *)

\* The offsets held by a bulk.
BulkLines(b) == { b[k] : k \in 1..Len(b) }

\* libgpiod gpiod_line_release_bulk: every line of the bulk becomes free.
Released(b) == [o \in Offsets |-> IF o \in BulkLines(b) THEN FreeLine ELSE lines[o]]

\* libgpiod gpiod_chip_close: releases every line of the chip and closes it.
Closed == [o \in Offsets |-> FreeLine]

\* Variant of err_exit_release: the bulk-release is forgotten.
err_exit_release_skipped ==
    /\ pc = "err_exit"
    /\ pc' = IF data # "NULL" THEN "err_free" ELSE "err_close"
    /\ UNCHANGED << cfg, locals, data, fields, libvars, regvars, init_ret,
                    sdvars, opvars, uaf, diag, log >>

\* Variant of err_exit_release: the bulk-release is made without looking at
\* the number of lines the bulk holds.
err_exit_release_unguarded ==
    /\ pc = "err_exit"
    /\ IF data # "NULL"
       THEN /\ lines' = [o \in Offsets |->
                           IF o \in { bulk[k] : k \in 1..Len(bulk) }
                           THEN FreeLine ELSE lines[o]]
            /\ log' = Append(log, Call("release_bulk", bulk, 0))
            /\ pc' = "err_free"
       ELSE /\ pc' = "err_close"
            /\ UNCHANGED << lines, log >>
    /\ UNCHANGED << cfg, locals, data, fields, chip_open, regvars, init_ret,
                    sdvars, opvars, uaf, diag >>

\* if (data) { if (gpiod_line_bulk_num_lines(&data->bulk) > 0)
\*                 gpiod_line_release_bulk(&data->bulk); (lines 148-150).
err_exit_release ==
    /\ pc = "err_exit"
    /\ IF data # "NULL"
       THEN /\ IF Len(bulk) > 0
               THEN /\ lines' = Released(bulk)
                    /\ log' = Append(log, Call("release_bulk", bulk, 0))
               ELSE UNCHANGED << lines, log >>
            /\ pc' = "err_free"
       ELSE /\ pc' = "err_close"
            /\ UNCHANGED << lines, log >>
    /\ UNCHANGED << cfg, locals, data, fields, chip_open, regvars, init_ret,
                    sdvars, opvars, uaf, diag >>

\* free(data); } (lines 152-153).
err_exit_free ==
    /\ pc = "err_free"
    /\ data' = "freed"
    /\ log' = Append(log, Call("free", <<>>, 0))
    /\ pc' = "err_close"
    /\ UNCHANGED << cfg, locals, fields, libvars, regvars, init_ret, sdvars,
                    opvars, uaf, diag >>

\* Variant of err_exit_close: the controller is never closed.
err_exit_close_leak ==
    /\ pc = "err_close"
    /\ init_ret' = <<1>>
    /\ pc' = "idle"
    /\ UNCHANGED << cfg, locals, data, fields, libvars, regvars, sdvars,
                    opvars, uaf, diag, log >>

\* Variant of err_exit_close: the controller is taken from data->chip, as the
\* shutdown callback does, after data has been freed.
err_exit_close_via_data ==
    /\ pc = "err_close"
    /\ uaf' = (uaf \/ data = "freed")
    /\ IF data_chip # "NULL"
       THEN /\ chip_open' = FALSE
            /\ lines' = [o \in Offsets |-> FreeLine]
            /\ log' = Append(log, Call("chip_close", <<>>, 0))
       ELSE UNCHANGED << chip_open, lines, log >>
    /\ init_ret' = <<1>>
    /\ pc' = "idle"
    /\ UNCHANGED << cfg, locals, data, fields, regvars, sdvars, opvars, diag >>

\* if (chip) gpiod_chip_close(chip); return 1; (lines 155-157).
err_exit_close ==
    /\ pc = "err_close"
    /\ IF chip # "NULL"
       THEN /\ chip_open' = FALSE
            /\ lines' = Closed
            /\ log' = Append(log, Call("chip_close", <<>>, 0))
       ELSE UNCHANGED << chip_open, lines, log >>
    /\ init_ret' = <<1>>
    /\ pc' = "idle"
    /\ UNCHANGED << cfg, locals, data, fields, regvars, sdvars, opvars, uaf,
                    diag >>

(* --------------------- linux_gpiod_spi_shutdown ------------------------ *)

\* The shutdown registry takes the registered callback off its table and
\* calls it: linux_gpiod_spi_shutdown(data) is entered (lines 70-72).
shutdown_invoke ==
    /\ pc = "idle"
    /\ shutdown_fn_count > 0
    /\ shutdown_fn_count' = shutdown_fn_count - 1
    /\ sd_calls' = sd_calls + 1
    /\ pc' = "sd_release"
    /\ UNCHANGED << cfg, locals, data, fields, libvars, registered_master,
                    init_ret, sd_ret, sd_result, opvars, uaf, diag, log >>

\* A caller invokes the callback once more on the instance it has already
\* been invoked on (the registry itself never does).
shutdown_reinvoke ==
    /\ pc = "idle"
    /\ sd_calls >= 1
    /\ sd_calls < MaxInvocations
    /\ sd_calls' = sd_calls + 1
    /\ pc' = "sd_release"
    /\ UNCHANGED << cfg, locals, data, fields, libvars, regvars, init_ret,
                    sd_ret, sd_result, opvars, uaf, diag, log >>

\* Variant of shutdown_release: the bulk-release is made without looking at
\* the number of lines the bulk holds.
shutdown_release_unguarded ==
    /\ pc = "sd_release"
    /\ lines' = Released(bulk)
    /\ log' = Append(log, Call("release_bulk", bulk, 0))
    /\ pc' = "sd_close"
    /\ uaf' = (uaf \/ data = "freed")
    /\ UNCHANGED << cfg, locals, data, fields, chip_open, regvars, init_ret,
                    sdvars, opvars, diag >>

\* if (gpiod_line_bulk_num_lines(&data->bulk) > 0)
\*         gpiod_line_release_bulk(&data->bulk); (lines 74-75).
\* Reading data->bulk of a freed backend is undefined: the read yields the
\* stale contents or an empty bulk, or the program crashes.
shutdown_release ==
    /\ pc = "sd_release"
    /\ IF data = "live"
       THEN /\ IF Len(bulk) > 0
               THEN /\ lines' = Released(bulk)
                    /\ log' = Append(log, Call("release_bulk", bulk, 0))
               ELSE UNCHANGED << lines, log >>
            /\ pc' = "sd_close"
            /\ uaf' = uaf
       ELSE /\ uaf' = TRUE
            /\ \E outcome \in {"stale", "empty", "crash"} :
                 /\ log' = IF outcome = "stale" /\ Len(bulk) > 0
                           THEN Append(log, Call("release_bulk", bulk, 0))
                           ELSE log
                 /\ pc' = IF outcome = "crash" THEN "crashed" ELSE "sd_close"
            /\ lines' = lines
    /\ UNCHANGED << cfg, locals, data, fields, chip_open, regvars, init_ret,
                    sdvars, opvars, diag >>

\* Variant of shutdown_close: the callback never closes the controller.
shutdown_close_leak ==
    /\ pc = "sd_close"
    /\ pc' = "sd_free"
    /\ UNCHANGED << cfg, locals, data, fields, libvars, regvars, init_ret,
                    sdvars, opvars, uaf, diag, log >>

\* if (data->chip) gpiod_chip_close(data->chip); (lines 77-78).
shutdown_close ==
    /\ pc = "sd_close"
    /\ IF data = "live"
       THEN /\ IF data_chip # "NULL"
               THEN /\ chip_open' = FALSE
                    /\ lines' = Closed
                    /\ log' = Append(log, Call("chip_close", <<>>, 0))
               ELSE UNCHANGED << chip_open, lines, log >>
            /\ pc' = "sd_free"
            /\ uaf' = uaf
       ELSE /\ uaf' = TRUE
            /\ \E outcome \in {"stale", "empty", "crash"} :
                 /\ log' = IF outcome = "stale" /\ data_chip # "NULL"
                           THEN Append(log, Call("chip_close", <<>>, 0))
                           ELSE log
                 /\ pc' = IF outcome = "crash" THEN "crashed" ELSE "sd_free"
            /\ UNCHANGED << chip_open, lines >>
    /\ UNCHANGED << cfg, locals, data, fields, regvars, init_ret, sdvars,
                    opvars, diag >>

\* free(data); return 0; (lines 80-82).
shutdown_free ==
    /\ pc = "sd_free"
    /\ data' = "freed"
    /\ log' = Append(log, Call("free", <<>>, 0))
    /\ sd_ret' = sd_ret + 1
    /\ sd_result' = <<0>>
    /\ pc' = "idle"
    /\ UNCHANGED << cfg, locals, fields, libvars, regvars, init_ret, sd_calls,
                    opvars, uaf, diag >>

(* ------------------- bit-bang capability operations -------------------- *)

\* The SPI engine calls the operations of a master that is registered, one
\* call at a time, and none once the shutdown callback has been invoked.
EngineMayCall ==
    /\ pc = "idle"
    /\ registered_master
    /\ sd_calls = 0
    /\ nops < MaxOps

\* Variant of set_value: a failed write is not reported to msg_perr.
set_value_silent(k, val, msg) ==
    \E ok \in BOOLEAN :
      LET o   == role_line[k]
          res == IF ok /\ lines[o].req /\ lines[o].dir = "out" THEN 0 ELSE -1
      IN /\ lines' = IF res = 0 THEN [lines EXCEPT ![o].val = val] ELSE lines
         /\ log' = Append(log, Call("set_value", <<o, val>>, res))
         /\ diag' = diag
         /\ nops' = nops + 1
         /\ UNCHANGED << cfg, pc, locals, data, fields, chip_open, regvars,
                         init_ret, sdvars, miso_ret, uaf >>

\* libgpiod gpiod_line_set_value: only a line reserved as output is written,
\* and the write itself may fail.
set_value(k, val, msg) ==
    \E ok \in BOOLEAN :
      LET o   == role_line[k]
          res == IF ok /\ lines[o].req /\ lines[o].dir = "out" THEN 0 ELSE -1
      IN /\ lines' = IF res = 0 THEN [lines EXCEPT ![o].val = val] ELSE lines
         /\ log' = Append(log, Call("set_value", <<o, val>>, res))
         /\ diag' = IF res < 0 THEN Append(diag, <<msg>>) ELSE diag
         /\ nops' = nops + 1
         /\ UNCHANGED << cfg, pc, locals, data, fields, chip_open, regvars,
                         init_ret, sdvars, miso_ret, uaf >>

\* linux_gpiod_bitbang_set_cs (lines 33-38).
linux_gpiod_bitbang_set_cs ==
    /\ EngineMayCall
    /\ \E val \in 0..1 : set_value(1, val, "Setting cs line failed")

\* linux_gpiod_bitbang_set_sck (lines 40-45).
linux_gpiod_bitbang_set_sck ==
    /\ EngineMayCall
    /\ \E val \in 0..1 : set_value(2, val, "Setting sck line failed")

\* linux_gpiod_bitbang_set_mosi (lines 47-52); its message names sck.
linux_gpiod_bitbang_set_mosi ==
    /\ EngineMayCall
    /\ \E val \in 0..1 : set_value(3, val, "Setting sck line failed")

\* Variant of linux_gpiod_bitbang_get_miso: a failed read is reported to the
\* caller as level 0.
linux_gpiod_bitbang_get_miso_masked ==
    /\ EngineMayCall
    /\ \E res \in {-1, 0, 1} :
         /\ log' = Append(log, Call("get_value", <<role_line[4]>>, res))
         /\ diag' = IF res < 0 THEN Append(diag, <<"Getting miso line failed">>) ELSE diag
         /\ miso_ret' = IF res < 0 THEN <<0>> ELSE <<res>>
    /\ nops' = nops + 1
    /\ UNCHANGED << cfg, pc, locals, data, fields, libvars, regvars, init_ret,
                    sdvars, uaf >>

\* linux_gpiod_bitbang_get_miso (lines 54-61): libgpiod returns the level of
\* the line, 0 or 1, or -1 when the read fails.
linux_gpiod_bitbang_get_miso ==
    /\ EngineMayCall
    /\ \E res \in {-1, 0, 1} :
         /\ log' = Append(log, Call("get_value", <<role_line[4]>>, res))
         /\ diag' = IF res < 0 THEN Append(diag, <<"Getting miso line failed">>) ELSE diag
         /\ miso_ret' = <<res>>
    /\ nops' = nops + 1
    /\ UNCHANGED << cfg, pc, locals, data, fields, libvars, regvars, init_ret,
                    sdvars, uaf >>

(* --------------------------- specifications ---------------------------- *)

Program ==
    \/ init_extract_param
    \/ init_calloc
    \/ init_chip_open
    \/ init_get_lines
    \/ init_assign_lines
    \/ init_request_cs
    \/ init_request_sck
    \/ init_request_mosi
    \/ init_request_miso
    \/ init_check_r
    \/ init_register_shutdown
    \/ init_register_master
    \/ err_exit_release
    \/ err_exit_free
    \/ err_exit_close
    \/ shutdown_invoke
    \/ shutdown_release
    \/ shutdown_close
    \/ shutdown_free
    \/ linux_gpiod_bitbang_set_cs
    \/ linux_gpiod_bitbang_set_sck
    \/ linux_gpiod_bitbang_set_mosi
    \/ linux_gpiod_bitbang_get_miso

\* The program with the shutdown registry of flashrom: every registered
\* callback is invoked at most once.
Next == Program

Spec == Init /\ [][Next]_vars

\* The program with a caller that may invoke the shutdown callback again.
NextReinvoke == Program \/ shutdown_reinvoke

SpecReinvoke == Init /\ [][NextReinvoke]_vars

\* The steps of init, of err_exit and of the shutdown callback, and the
\* registry's invocation of the callback: everything but the engine's calls.
Lifecycle ==
    \/ init_extract_param
    \/ init_calloc
    \/ init_chip_open
    \/ init_get_lines
    \/ init_assign_lines
    \/ init_request_cs
    \/ init_request_sck
    \/ init_request_mosi
    \/ init_request_miso
    \/ init_check_r
    \/ init_register_shutdown
    \/ init_register_master
    \/ err_exit_release
    \/ err_exit_free
    \/ err_exit_close
    \/ shutdown_invoke
    \/ shutdown_release
    \/ shutdown_close
    \/ shutdown_free

\* The program under the assumption of process teardown: init and the
\* callback are synchronous code that runs to its end, and the registry
\* eventually invokes every callback registered with it.
SpecTeardown == Init /\ [][Next]_vars /\ WF_vars(Lifecycle)

\* The line sets a backend can hold: up to four distinct lines of the chip.
BulkInputs ==
    { b \in UNION { [1..n -> Offsets] : n \in 0..NumLines } :
        \A j, k \in 1..Len(b) : j # k => b[j] # b[k] }

\* The shutdown callback registered for a backend in any state of
\* construction: no controller and no lines, or an open controller with any
\* line set, whose lines are reserved or not.
InitShutdown ==
    /\ cfg = [k \in 1..NumParams |-> NULL]
    /\ pc = "idle"
    /\ i = 0
    /\ param_int = [k \in 1..NumParams |-> 0]
    /\ data = "live"
    /\ data_chip \in {"NULL", "chip"}
    /\ bulk \in BulkInputs
    /\ data_chip = "NULL" => bulk = <<>>
    /\ role_line = [k \in 1..NumLines |-> IF k <= Len(bulk) THEN bulk[k] ELSE 0]
    /\ chip = data_chip
    /\ r = 0
    /\ chip_open = (data_chip = "chip")
    /\ \E reserved \in BOOLEAN :
         lines = [o \in Offsets |->
                    IF reserved /\ o \in BulkLines(bulk)
                    THEN [req |-> TRUE, dir |-> "out", val |-> 1]
                    ELSE FreeLine]
    /\ shutdown_fn_count = 1
    /\ registered_master = FALSE
    /\ init_ret = <<>>
    /\ sd_calls = 0
    /\ sd_ret = 0
    /\ sd_result = <<>>
    /\ nops = 0
    /\ miso_ret = <<>>
    /\ uaf = FALSE
    /\ diag = <<>>
    /\ log = <<>>

NextShutdown ==
    \/ shutdown_invoke
    \/ shutdown_release
    \/ shutdown_close
    \/ shutdown_free

\* linux_gpiod_spi_shutdown on its own, applied to each such backend.
SpecShutdown == InitShutdown /\ [][NextShutdown]_vars

(* ------------------------- reading the state --------------------------- *)

\* The positions in log of the calls named op.
Calls(op) == { k \in 1..Len(log) : log[k].op = op }

Count(op) == Cardinality(Calls(op))

\* A call named op was made and reported failure.
Failed(op) == \E k \in Calls(op) : log[k].res # 0

\* The four line requests, output and input alike.
RequestCalls == Calls("request_output") \cup Calls("request_input")

RequestFailed == \E k \in RequestCalls : log[k].res # 0

\* Calls to libgpiod (everything in log but the registrations and free).
GpioCalls ==
    { k \in 1..Len(log) :
        log[k].op \notin {"register_shutdown", "register_master", "free"} }

\* The lines currently reserved by this process.
Reserved == { o \in Offsets : lines[o].req }

InitReturned == init_ret # <<>>

InitFailed == init_ret = <<1>>

MissingParam == \E k \in 1..NumParams : cfg[k] = NULL

\* Armed: controller open, every role bound to a reserved line of its direction.
Armed ==
    /\ chip_open
    /\ Cardinality(Reserved) = NumLines
    /\ \A k \in 1..NumLines :
         /\ role_line[k] \in Reserved
         /\ lines[role_line[k]].dir = IF k = NumLines THEN "in" ELSE "out"

ErrPcs == {"err_exit", "err_free", "err_close"}

(* ------------------------------ claims --------------------------------- *)

\* C1: in every execution in which the registry invokes the registered
\* callback at most once, the bulk-release, the controller close and the free
\* of the backend each happen at most once; the init error path runs only
\* while no callback is registered or has run, and the callback runs only
\* after a successful registration.
C1_ReleasedAtMostOnce ==
    /\ Count("release_bulk") <= 1
    /\ Count("chip_close") <= 1
    /\ Count("free") <= 1
    /\ pc \in ErrPcs => shutdown_fn_count = 0 /\ sd_calls = 0
    /\ sd_calls > 0 => \E k \in Calls("register_shutdown") : log[k].res = 0

\* The callback has run to its end after a failed engine registration and
\* has released, closed and freed once.
C1_Witness ==
    /\ sd_ret = 1
    /\ Failed("register_master")
    /\ Count("release_bulk") = 1
    /\ Count("chip_close") = 1
    /\ Count("free") = 1

\* C2: when init has returned failure for any reason other than a failed
\* engine registration, no line is reserved, the controller is not open, the
\* backend memory is not held, and the shutdown callback had no part in it.
C2_FailureReleasesAll ==
    (InitReturned /\ InitFailed /\ ~Failed("register_master")) =>
        /\ Reserved = {}
        /\ ~chip_open
        /\ data # "live"
        /\ shutdown_fn_count = 0
        /\ sd_calls = 0

\* Init has returned failure after the shutdown registration failed on a
\* fully reserved line set.
C2_Witness ==
    /\ InitReturned
    /\ InitFailed
    /\ Failed("register_shutdown")
    /\ Cardinality({ k \in RequestCalls : log[k].res = 0 }) = NumLines
    /\ Count("chip_close") = 1

\* C3: if any of the four requests fails, neither registry is ever called,
\* and when init returns there has been exactly one bulk-release, of all four
\* lines that were looked up, and one controller close.
C3_RequestFailureRollsBack ==
    RequestFailed =>
        /\ Count("register_shutdown") = 0
        /\ Count("register_master") = 0
        /\ InitReturned =>
             /\ InitFailed
             /\ Count("release_bulk") = 1
             /\ \A k \in Calls("release_bulk") :
                  /\ Len(log[k].arg) = NumLines
                  /\ \A g \in Calls("get_lines") : log[k].arg = log[g].arg
             /\ Count("chip_close") = 1
             /\ Reserved = {}

\* Init has returned after the miso request failed while cs, sck and mosi
\* had been reserved.
C3_Witness ==
    /\ InitReturned
    /\ Count("request_input") = 1
    /\ Failed("request_input")
    /\ ~Failed("request_output")
    /\ Count("release_bulk") = 1

\* C4: after a failed engine registration init returns failure without any
\* release, close or free; lines and controller stay held, with the callback
\* registered, until the callback is invoked; when the callback has returned
\* it has released, closed and freed exactly once.
C4_EngineFailureLeavesCleanupToShutdown ==
    Failed("register_master") =>
        /\ InitFailed
        /\ sd_calls = 0 =>
             /\ Count("release_bulk") = 0
             /\ Count("chip_close") = 0
             /\ Count("free") = 0
             /\ Armed
             /\ data = "live"
             /\ shutdown_fn_count = 1
        /\ sd_ret >= 1 =>
             /\ Count("release_bulk") = 1
             /\ Count("chip_close") = 1
             /\ Count("free") = 1
             /\ Reserved = {}
             /\ ~chip_open
             /\ data = "freed"

\* Init has returned after a failed engine registration and the callback has
\* not been invoked yet.
C4_Witness ==
    /\ Failed("register_master")
    /\ InitReturned
    /\ sd_calls = 0
    /\ Armed

\* C5: a shutdown of an armed backend makes one bulk-release and one close,
\* and a second invocation on the same instance makes no further release,
\* close or free call, does not access freed memory and does not crash.
C5_SecondShutdownIsNoOp ==
    /\ sd_ret >= 1 => Count("release_bulk") = 1 /\ Count("chip_close") = 1
    /\ sd_calls >= 2 =>
         /\ ~uaf
         /\ pc # "crashed"
         /\ Count("release_bulk") = 1
         /\ Count("chip_close") = 1
         /\ Count("free") = 1

\* C6: the backend is handed to the SPI engine only when it is armed, it
\* stays armed for as long as it is registered and not shut down, and every
\* capability operation the engine has issued found all four lines reserved:
\* four successful requests and no release or close precede it in the log.
C6_RegisteredOnlyWhenArmed ==
    /\ (registered_master /\ sd_calls = 0) => Armed
    /\ \A k \in Calls("register_master") \cup Calls("set_value") \cup Calls("get_value") :
         /\ \E j \in 1..(k - 1) : log[j].op = "chip_open" /\ log[j].res = 0
         /\ Cardinality({ j \in RequestCalls : j < k /\ log[j].res = 0 }) = NumLines
         /\ \A j \in 1..(k - 1) : log[j].op \notin {"release_bulk", "chip_close"}

\* The engine has issued a capability operation on the registered backend.
C6_Witness ==
    /\ registered_master
    /\ nops > 0
    /\ sd_calls = 0
    /\ Armed

\* C7: whenever the program rests (init has returned and no callback is
\* running) 0 or 4 lines are reserved; 1 to 3 reserved lines exist only inside
\* init after the first request, and none is left after a request failure.
C7_RestingLineSetAllOrNothing ==
    /\ pc = "idle" => Cardinality(Reserved) \in {0, NumLines}
    /\ Cardinality(Reserved) \in 1..(NumLines - 1) =>
         /\ ~InitReturned
         /\ pc \in {"request_sck", "request_mosi", "request_miso", "check_r", "err_exit"}
    /\ (InitReturned /\ RequestFailed) => Reserved = {}

\* Init has returned after a request failure that had left two lines reserved.
C7_Witness ==
    /\ InitReturned
    /\ Cardinality({ k \in RequestCalls : log[k].res = 0 }) = 2
    /\ Reserved = {}

\* C8: with a required parameter missing no libgpiod call is ever made, and
\* init returns failure with the one diagnostic naming the first missing
\* parameter.
C8_MissingParamNoGpioCalls ==
    MissingParam =>
        /\ GpioCalls = {}
        /\ InitReturned =>
             /\ InitFailed
             /\ log = <<>>
             /\ \E k \in 1..NumParams :
                  /\ cfg[k] = NULL
                  /\ \A j \in 1..(k - 1) : cfg[j] # NULL
                  /\ diag = << <<"Missing required programmer parameter", param_str[k]>> >>

\* Init has returned with only gpiochip missing.
C8_Witness ==
    /\ InitReturned
    /\ cfg[NumParams] = NULL
    /\ \A k \in 1..NumLines : cfg[k] # NULL

\* C9: when the controller open fails, init fails and the open is the only
\* libgpiod call ever made: no lookup, request, bulk-release or close.
C9_OpenFailureNoFurtherCalls ==
    Failed("chip_open") =>
        /\ GpioCalls = Calls("chip_open")
        /\ Count("chip_open") = 1
        /\ InitReturned => InitFailed /\ data = "freed"

\* Init has returned after a failed controller open.
C9_Witness ==
    /\ InitReturned
    /\ Failed("chip_open")

\* C10 as stated: after a failed lookup the controller is closed exactly once
\* and neither a line request nor a bulk-release is made, whatever the lookup
\* left in the line set.
C10_LookupFailureNoRelease ==
    (Failed("get_lines") /\ InitReturned) =>
        /\ Count("chip_close") = 1
        /\ RequestCalls = {}
        /\ Count("release_bulk") = 0

\* C10 amended: after a failed lookup the controller is closed exactly once
\* and no line request is made; a bulk-release is made exactly when the lookup
\* left at least one line in the line set, then once and of those lines only,
\* none of which was reserved.
C10_LookupFailureReleasesWhatWasLookedUp ==
    Failed("get_lines") =>
        /\ RequestCalls = {}
        /\ Reserved = {}
        /\ InitReturned =>
             /\ InitFailed
             /\ Count("chip_close") = 1
             /\ Count("release_bulk") = (IF Len(bulk) > 0 THEN 1 ELSE 0)
             /\ \A k \in Calls("release_bulk") :
                  /\ log[k].arg = bulk
                  /\ Len(bulk) < NumLines

\* Init has returned after a lookup that failed on its third line.
C10_Witness ==
    /\ InitReturned
    /\ Failed("get_lines")
    /\ Len(bulk) = 2
    /\ Count("release_bulk") = 1

\* The step appends one call named op to log.
CallStep(op) ==
    /\ Len(log') = Len(log) + 1
    /\ SubSeq(log', 1, Len(log)) = log
    /\ log'[Len(log')].op = op

\* The call the step has appended.
NewCall == log'[Len(log')]

\* The backend: its memory, its fields and the libgpiod objects it owns.
backend == << data, data_chip, bulk, role_line, chip_open, lines >>

\* C11: when init has returned success the log shows cs, sck and mosi
\* requested as output with initial value 1 and miso as input, all four
\* successfully, and no bulk-release and no close; at the return (before any
\* capability operation or shutdown) the three output lines are at 1.
C11_SuccessLeavesOutputsHigh ==
    init_ret = <<0>> =>
        /\ \A k \in 1..(NumLines - 1) :
             \E j \in Calls("request_output") :
                log[j].arg = <<param_int[k], 1>> /\ log[j].res = 0
        /\ \E j \in Calls("request_input") :
             log[j].arg = <<param_int[NumLines]>> /\ log[j].res = 0
        /\ Count("request_output") = NumLines - 1
        /\ Count("request_input") = 1
        /\ (nops = 0 /\ sd_calls = 0) =>
             /\ Count("release_bulk") = 0
             /\ Count("chip_close") = 0
             /\ \A k \in 1..(NumLines - 1) :
                  /\ lines[param_int[k]].req
                  /\ lines[param_int[k]].dir = "out"
                  /\ lines[param_int[k]].val = 1
             /\ lines[param_int[NumLines]].req
             /\ lines[param_int[NumLines]].dir = "in"

\* Init has just returned success.
C11_Witness ==
    /\ init_ret = <<0>>
    /\ nops = 0
    /\ sd_calls = 0
    /\ pc = "idle"

\* C12: a get-data-in step returns exactly the result of the read of the line
\* of the miso offset it has made, a negative value when the read failed and
\* never then 0 or 1, and leaves the backend as it was.
C12_GetMisoReturnsReadResult ==
    [][CallStep("get_value") =>
         /\ miso_ret' = <<NewCall.res>>
         /\ NewCall.arg = <<param_int[NumLines]>>
         /\ NewCall.res \in {0, 1} \/ miso_ret'[1] < 0
         /\ UNCHANGED backend]_vars

\* get-data-in has returned the failure sentinel.
C12_Witness ==
    /\ miso_ret = <<-1>>
    /\ \E k \in Calls("get_value") : log[k].res = -1

\* C13: under process teardown, an open controller is eventually closed and
\* reserved lines are eventually all released.
C13_OpenedEventuallyClosed ==
    /\ chip_open ~> ~chip_open
    /\ (Reserved # {}) ~> (Reserved = {})

\* The callback has closed a controller that init had left open with its
\* four lines reserved.
C13_Witness ==
    /\ sd_ret = 1
    /\ init_ret = <<0>>
    /\ ~chip_open
    /\ Reserved = {}
    /\ Count("chip_close") = 1

\* The calls init makes, in the order of the source.
InitOrder ==
    << "chip_open", "get_lines", "request_output", "request_output",
       "request_output", "request_input", "register_shutdown", "register_master" >>

InitOps == { InitOrder[k] : k \in 1..Len(InitOrder) }

\* Position in InitOrder of the first and of the last line request.
FirstRequest == 3
LastRequest == 6

\* C14: every call init makes stands in the log at its place in the order
\* open, lookup, request cs, sck, mosi, miso, shutdown registration, engine
\* registration, after exactly the calls before it in that order; the lookup
\* follows a successful open, the requests a successful lookup, and each
\* registration follows the success of every call before it.
C14_InitCallsInOrder ==
    \A k \in 1..Len(log) :
        log[k].op \in InitOps =>
            /\ k <= Len(InitOrder)
            /\ \A j \in 1..k : log[j].op = InitOrder[j]
            /\ k \in FirstRequest..LastRequest =>
                 /\ log[k].arg[1] = param_int[k - FirstRequest + 1]
                 /\ \A j \in 1..(FirstRequest - 1) : log[j].res = 0
            /\ k \notin FirstRequest..LastRequest =>
                 \A j \in 1..(k - 1) : log[j].res = 0

\* Init has made all eight calls, the engine registration last.
C14_Witness ==
    /\ Len(log) >= Len(InitOrder)
    /\ log[Len(InitOrder)].op = "register_master"
    /\ InitReturned

\* The request step is over: a request has been made and init is past the
\* fourth.
RequestStepDone ==
    /\ RequestCalls # {}
    /\ pc \notin {"request_sck", "request_mosi", "request_miso"}

\* C15 as stated: once the request step is over all four requests have been
\* made, and init fails if and only if one of them returned failure.
C15_InitFailsIffRequestFailed ==
    /\ RequestStepDone => Cardinality(RequestCalls) = NumLines
    /\ (InitReturned /\ RequestCalls # {}) => (InitFailed <=> RequestFailed)

\* C15 amended: once the request step is over all four requests have been
\* made; init fails at the request step, before any registration, if and only
\* if one of them returned failure; with four successful requests init goes on
\* to the registrations and fails if and only if one of those fails.
C15_RequestStepFailsIffRequestFailed ==
    /\ RequestStepDone => Cardinality(RequestCalls) = NumLines
    /\ RequestFailed => Count("register_shutdown") = 0
    /\ (InitReturned /\ RequestFailed) => InitFailed
    /\ (InitReturned /\ RequestCalls # {} /\ ~RequestFailed) =>
         /\ Count("register_shutdown") = 1
         /\ InitFailed <=> (Failed("register_shutdown") \/ Failed("register_master"))

\* Init has returned after the cs request failed and the three others were
\* still made.
C15_Witness ==
    /\ InitReturned
    /\ Cardinality(RequestCalls) = NumLines
    /\ \E k \in RequestCalls :
         /\ log[k].res # 0
         /\ \A j \in RequestCalls : k <= j

\* C16: a set operation whose line write fails adds one diagnostic and
\* returns to the engine with the backend untouched: still registered and
\* armed, its memory live, and no bulk-release, close or free made by the step.
C16_SetFailureIsNotPropagated ==
    [][(CallStep("set_value") /\ NewCall.res # 0) =>
         /\ Len(diag') = Len(diag) + 1
         /\ SubSeq(diag', 1, Len(diag)) = diag
         /\ pc' = "idle"
         /\ UNCHANGED backend
         /\ UNCHANGED << shutdown_fn_count, registered_master, sd_calls >>
         /\ registered_master'
         /\ Armed'
         /\ data' = "live"
         /\ Count("release_bulk")' = 0
         /\ Count("chip_close")' = 0
         /\ Count("free")' = 0]_vars

\* A set operation has failed and the backend rests armed.
C16_Witness ==
    /\ \E k \in Calls("set_value") : log[k].res # 0
    /\ pc = "idle"
    /\ sd_calls = 0
    /\ Armed

\* The step is one set_value call on the line of the offset given for role k:
\* that line takes the given level when the write succeeds and no other line
\* changes.
WritesOnlyRole(k) ==
    /\ CallStep("set_value")
    /\ NewCall.arg[1] = atoi(cfg[k])
    /\ \A o \in Offsets \ {atoi(cfg[k])} : lines'[o] = lines[o]
    /\ lines'[atoi(cfg[k])].val =
         (IF NewCall.res = 0 THEN NewCall.arg[2] ELSE lines[atoi(cfg[k])].val)

\* C17: set-chip-select writes only the line of the cs offset, set-clock only
\* that of the sck offset, set-data-out only that of the mosi offset, each
\* leaving the other lines as they were, and get-data-in reads only the line
\* of the miso offset and changes no line.
C17_RolesBoundByPosition ==
    [][/\ linux_gpiod_bitbang_set_cs => WritesOnlyRole(1)
       /\ linux_gpiod_bitbang_set_sck => WritesOnlyRole(2)
       /\ linux_gpiod_bitbang_set_mosi => WritesOnlyRole(3)
       /\ linux_gpiod_bitbang_get_miso =>
            /\ CallStep("get_value")
            /\ NewCall.arg = <<atoi(cfg[NumLines])>>
            /\ lines' = lines]_vars

\* The engine has driven chip-select low and then sampled data-in.
C17_Witness ==
    /\ nops = 2
    /\ \E k \in Calls("set_value") :
         /\ k < Len(log)
         /\ log[k].arg = <<atoi(cfg[1]), 0>>
         /\ log[k].res = 0
         /\ lines[atoi(cfg[1])].val = 0
         /\ lines[atoi(cfg[2])].val = 1
         /\ log[k + 1].op = "get_value"

\* C18 as stated: whenever init returns failure it has emitted exactly one
\* diagnostic, and it returns success only when every step succeeded.
C18_EveryFailureHasOneDiagnostic ==
    InitReturned =>
        /\ InitFailed => Len(diag) = 1
        /\ init_ret = <<0>> =>
             /\ Count("register_master") = 1
             /\ \A k \in 1..Len(log) : log[k].op \in InitOps => log[k].res = 0

\* The diagnostic init emits for the step that failed.
InitDiagnostic ==
    IF MissingParam
    THEN << <<"Missing required programmer parameter",
              param_str[CHOOSE k \in 1..NumParams :
                          cfg[k] = NULL /\ \A j \in 1..(k - 1) : cfg[j] # NULL]>> >>
    ELSE IF log = <<>> THEN << <<"Unable to allocate space for SPI master data">> >>
    ELSE IF Failed("chip_open") THEN << <<"Failed to open gpiochip">> >>
    ELSE IF Failed("get_lines") THEN << <<"Error getting GPIO lines">> >>
    ELSE IF RequestFailed THEN << <<"Requesting GPIO lines failed">> >>
    ELSE <<>>

\* C18 amended: a missing parameter, a failed allocation, open, lookup or
\* line request makes init emit exactly one diagnostic, the one of that step;
\* for a failed shutdown registration or engine registration init itself
\* emits none.  Init returns 1 in each of these cases and 0 only when every
\* step succeeded.
C18_DiagnosticPerFailingStep ==
    InitReturned =>
        /\ init_ret \in {<<0>>, <<1>>}
        /\ InitFailed =>
             /\ diag = InitDiagnostic
             /\ (Failed("register_shutdown") \/ Failed("register_master")) <=> diag = <<>>
        /\ init_ret = <<0>> <=>
             /\ Count("register_master") = 1
             /\ \A k \in 1..Len(log) : log[k].op \in InitOps => log[k].res = 0
        /\ (init_ret = <<0>> /\ nops = 0) => diag = <<>>

\* Init has returned failure after a failed shutdown registration, without a
\* diagnostic of its own.
C18_Witness ==
    /\ InitReturned
    /\ InitFailed
    /\ Failed("register_shutdown")
    /\ diag = <<>>

\* C19: when the callback has returned it has freed the backend once and
\* returned 0; it has made a bulk-release exactly if the line set held a line
\* and a close exactly if the controller handle was present.
C19_ShutdownChecksBeforeReleasing ==
    sd_ret = 1 =>
        /\ pc = "idle"
        /\ sd_result = <<0>>
        /\ data = "freed"
        /\ Count("free") = 1
        /\ ~uaf
        /\ Count("release_bulk") = (IF Len(bulk) > 0 THEN 1 ELSE 0)
        /\ Count("chip_close") = (IF data_chip # "NULL" THEN 1 ELSE 0)

\* The callback has returned for a backend without lines and controller.
C19_Witness ==
    /\ sd_ret = 1
    /\ Len(bulk) = 0
    /\ data_chip = "NULL"
    /\ Count("free") = 1

\* The calls that operate on lines.
LineOps == {"set_value", "get_value", "request_output", "request_input", "release_bulk"}

\* C20: every bulk-release precedes every close; no line operation follows a
\* close or the free of the backend; freed backend memory is never accessed,
\* and once it is freed only err_exit's close of the local chip remains.
C20_ReleaseBeforeCloseNothingAfter ==
    /\ \A k \in Calls("chip_close") : \A j \in Calls("release_bulk") : j < k
    /\ \A k \in Calls("chip_close") \cup Calls("free") :
         \A j \in (k + 1)..Len(log) : log[j].op \notin LineOps
    /\ ~uaf
    /\ data = "freed" => pc \in {"err_close", "idle"}
    /\ (Count("chip_close") > 0 /\ pc # "idle") => pc = "sd_free"

\* The init error path has released four lines, freed the backend and closed
\* the controller.
C20_Witness ==
    /\ InitReturned
    /\ InitFailed
    /\ sd_calls = 0
    /\ Count("release_bulk") = 1
    /\ Count("free") = 1
    /\ Count("chip_close") = 1
    /\ log[Len(log)].op = "chip_close"

=============================================================================
